---- MODULE Spec2Model ----
(***************************************************************************)
(* Model of BFSI_VA.py: the module-level environment bootstrap             *)
(* (load_dotenv fallback, REQUIRED_ENV validation, SystemExit(1)), the     *)
(* Assistant agent value, the async session entrypoint and the __main__    *)
(* worker registration.                                                    *)
(***************************************************************************)
EXTENDS Integers, Sequences, FiniteSets, TLC

\* ------------------------------------------------------------------ bounds
\* Number of REQUIRED_ENV names whose ambient / file values are enumerated
\* one by one; the remaining names are enumerated together, as one block
\* that a source either leaves out, sets to "" or sets to a value.
NVary == 1
\* Number of jobs the worker may dispatch to entrypoint.
MaxJobs == 2

\* --------------------------------------------------------------- constants
REQUIRED_ENV ==
  << "LIVEKIT_URL", "LIVEKIT_API_KEY", "LIVEKIT_API_SECRET",
     "OPENAI_API_KEY", "CARTESIA_API_KEY", "DEEPGRAM_API_KEY" >>

Required == { REQUIRED_ENV[i] : i \in 1..Len(REQUIRED_ENV) }

VaryKeys == { REQUIRED_ENV[i] : i \in 1..NVary } \cap Required
RestKeys == Required \ VaryKeys

\* Python's None (os.getenv of an unset name, an object not yet bound).
None == "<None>"

\* Stand-in for the instruction string literal of Assistant.__init__.
INSTRUCTIONS == "You are the AI Voice & Chat Assistant for a Payment Aggregator platform. [...] Begin now and greet the user appropriately."

GREETING == "Hi u have Reached the suppoRt of bfsi how may i help u today ."

STT == "deepgram/nova-2-general:en"
LLM == "openai/gpt-4.1-mini"
TTS == "cartesia/sonic-3:9626c31c-bec5-4cca-baa8-f8ba9e84c8bc"

MISSING_PREFIX == "Missing required environment variables: "

\* ------------------------------------------------------------------- state
VARIABLES
  ambient,        \* os.environ as inherited at process start (never written)
  environ,        \* os.environ: a dict, name -> string
  primaryFile,    \* .env.local on disk: [exists, vars]
  secondaryFile,  \* .env on disk: [exists, vars]
  runDirect,      \* __name__ == "__main__"
  pc,             \* position of the module body
  loaded,         \* module variable `loaded`
  secondaryRead,  \* whether load_dotenv(".env") was called
  missing,        \* module variable `missing`
  stdout,         \* lines printed
  exitStatus,     \* SystemExit code, None while the process lives
  registered,     \* entrypoint_fnc handed to the worker, None before run_app
  jobs,           \* per dispatched job: the entrypoint coroutine's state
  nextId          \* identity of the next object constructed

vars == << ambient, environ, primaryFile, secondaryFile, runDirect, pc, loaded,
           secondaryRead, missing, stdout, exitStatus, registered, jobs,
           nextId >>

config == << ambient, environ, primaryFile, secondaryFile, runDirect >>
module == << pc, loaded, secondaryRead, missing, stdout, exitStatus >>

\* ----------------------------------------------------------------- helpers
EmptyDict == [k \in {} |-> ""]

\* The dicts over REQUIRED_ENV names enumerated as inputs: each name of
\* VaryKeys on its own, the names of RestKeys as a block.
Expand(d) ==
  [k \in (DOMAIN d \cap VaryKeys) \cup (IF "*" \in DOMAIN d THEN RestKeys ELSE {}) |->
     IF k \in VaryKeys THEN d[k] ELSE d["*"]]

Dicts(values) ==
  { Expand(d) : d \in UNION { [g -> values] : g \in SUBSET (VaryKeys \cup {"*"}) } }

\* os.getenv(k)
getenv(e, k) == IF k \in DOMAIN e THEN e[k] ELSE None

\* Python truthiness of an Optional[str], negated: `not v`
Falsy_unsetOnly(v) == v = None
Falsy_inverted(v) == ~(v = None \/ v = "")
Falsy(v) == v = None \/ v = ""

\* dotenv: the parsed content of a file, empty when the file does not exist
dotenv_values(file) == IF file.exists THEN file.vars ELSE EmptyDict

\* load_dotenv(path) with override=False: [ok, environ]. ok tells whether the
\* file yielded any variable; a name already in os.environ keeps its value.
load_dotenv(file, e) ==
  LET d == dotenv_values(file) IN
    IF DOMAIN d = {} THEN [ok |-> FALSE, environ |-> e]
    ELSE [ok |-> TRUE,
          environ |-> [k \in DOMAIN e \cup DOMAIN d |->
                         IF k \in DOMAIN e THEN e[k] ELSE d[k]]]

\* [k for k in REQUIRED_ENV if not os.getenv(k)]
RECURSIVE MissingFrom(_, _)
MissingFrom(e, i) ==
  IF i > Len(REQUIRED_ENV) THEN << >>
  ELSE (IF Falsy(getenv(e, REQUIRED_ENV[i])) THEN << REQUIRED_ENV[i] >> ELSE << >>)
       \o MissingFrom(e, i + 1)

MissingList_skipFirst(e) == MissingFrom(e, 2)
MissingList(e) == MissingFrom(e, 1)

\* The diagnostic printed by the validation guard
MissingMessage(m) == [text |-> MISSING_PREFIX, names |-> m]

IdleJob == [pc |-> "idle", session |-> None, agent |-> None,
            raisedAt |-> "", calls |-> << >>]

\* -------------------------------------------------------------------- Init
Files == { [exists |-> FALSE, vars |-> EmptyDict] } \cup
         { [exists |-> TRUE, vars |-> d] : d \in Dicts({"", "F"}) }

Init ==
  /\ ambient \in Dicts({"", "A"})
  /\ environ = ambient
  /\ primaryFile \in Files
  /\ secondaryFile \in Files
  /\ runDirect \in BOOLEAN
  /\ pc = "load_primary"
  /\ loaded = None
  /\ secondaryRead = FALSE
  /\ missing = None
  /\ stdout = << >>
  /\ exitStatus = None
  /\ registered = None
  /\ jobs = [j \in 1..MaxJobs |-> IdleJob]
  /\ nextId = 1

\* ----------------------------------------------------------------- startup
\* Variants of LoadPrimary: never falling back, always loading both files
LoadPrimary_noFallback ==
  /\ pc = "load_primary"
  /\ LET r == load_dotenv(primaryFile, environ) IN
       /\ loaded' = r.ok
       /\ environ' = r.environ
       /\ pc' = "validate"
  /\ UNCHANGED << ambient, primaryFile, secondaryFile, runDirect, secondaryRead,
                  missing, stdout, exitStatus, registered, jobs, nextId >>

LoadPrimary_alwaysBoth ==
  /\ pc = "load_primary"
  /\ LET r == load_dotenv(primaryFile, environ) IN
       /\ loaded' = r.ok
       /\ environ' = r.environ
       /\ pc' = "load_secondary"
  /\ UNCHANGED << ambient, primaryFile, secondaryFile, runDirect, secondaryRead,
                  missing, stdout, exitStatus, registered, jobs, nextId >>

\* loaded = load_dotenv(".env.local")
LoadPrimary ==
  /\ pc = "load_primary"
  /\ LET r == load_dotenv(primaryFile, environ) IN
       /\ loaded' = r.ok
       /\ environ' = r.environ
       /\ pc' = IF ~r.ok THEN "load_secondary" ELSE "validate"
  /\ UNCHANGED << ambient, primaryFile, secondaryFile, runDirect, secondaryRead,
                  missing, stdout, exitStatus, registered, jobs, nextId >>

\* if not loaded: load_dotenv(".env")
LoadSecondary ==
  /\ pc = "load_secondary"
  /\ environ' = load_dotenv(secondaryFile, environ).environ
  /\ secondaryRead' = TRUE
  /\ pc' = "validate"
  /\ UNCHANGED << ambient, primaryFile, secondaryFile, runDirect, loaded, missing,
                  stdout, exitStatus, registered, jobs, nextId >>

\* Variant of Validate: the diagnostic is printed but nothing is raised
Validate_noExit ==
  /\ pc = "validate"
  /\ LET m == MissingList(environ) IN
       /\ missing' = m
       /\ stdout' = IF m # << >> THEN Append(stdout, MissingMessage(m)) ELSE stdout
       /\ pc' = "defined"
  /\ UNCHANGED << config, loaded, secondaryRead, exitStatus, registered, jobs, nextId >>

\* missing = [...]; if missing: print(...); raise SystemExit(1)
Validate ==
  /\ pc = "validate"
  /\ LET m == MissingList(environ) IN
       /\ missing' = m
       /\ IF m # << >>
            THEN /\ stdout' = Append(stdout, MissingMessage(m))
                 /\ exitStatus' = 1
                 /\ pc' = "exited"
            ELSE /\ UNCHANGED << stdout, exitStatus >>
                 /\ pc' = "defined"
  /\ UNCHANGED << config, loaded, secondaryRead, registered, jobs, nextId >>

\* if __name__ == "__main__": agents.cli.run_app(WorkerOptions(entrypoint_fnc=entrypoint))
RunApp ==
  /\ pc = "defined"
  /\ runDirect
  /\ registered' = "entrypoint"
  /\ pc' = "worker"
  /\ UNCHANGED << config, loaded, secondaryRead, missing, stdout, exitStatus,
                  jobs, nextId >>

\* --------------------------------------------------------------- Assistant
\* Variants of Assistant: one module-level instance; no instructions passed
Assistant_singleton(id) == [id |-> 0, instructions |-> INSTRUCTIONS]
Assistant_noInstructions(id) == [id |-> id, instructions |-> ""]

\* Assistant(): Agent.__init__(instructions=<literal>)
Assistant(id) == [id |-> id, instructions |-> INSTRUCTIONS]

\* AgentSession(stt=..., llm=..., tts=..., vad=silero.VAD.load())
AgentSession(id, vadId) ==
  [id |-> id, stt |-> STT, llm |-> LLM, tts |-> TTS, vad |-> vadId]

\* -------------------------------------------------------------- entrypoint
\* The function exists once the module body has run to its end; the worker
\* (or an importing host) calls it once per job, in dispatch order.
Callable == pc = "worker" \/ (pc = "defined" /\ ~runDirect)

Call(op, arg) == [op |-> op, arg |-> arg]

\* The JobContext of the j-th job: its room
Ctx(j) == [room |-> j]

\* The four provider endpoints a pipeline was configured with
Endpoints(s) == [stt |-> s.stt, llm |-> s.llm, tts |-> s.tts, vad |-> s.vad]

\* Variant of EntrypointCall: session.start(...) is not awaited, so the reply
\* is requested before the session has started
EntrypointCall_replyEarly(j) ==
  /\ Callable
  /\ jobs[j].pc = "idle"
  /\ \A i \in 1..(j - 1) : jobs[i].pc # "idle"
  /\ LET s == AgentSession(nextId + 1, nextId)
         a == Assistant(nextId + 2)
     IN /\ jobs' = [jobs EXCEPT ![j] =
             [pc |-> "await_reply", session |-> s, agent |-> a,
              raisedAt |-> "",
              calls |-> << Call("AgentSession", Endpoints(s)),
                           Call("Assistant", a.instructions),
                           Call("session.start", Ctx(j).room),
                           Call("generate_reply", GREETING) >>]]
        /\ nextId' = nextId + 3
  /\ UNCHANGED << config, module, registered >>

\* entrypoint(ctx) up to its first suspension: build the pipeline (which may
\* raise), build the Assistant, call session.start(room=ctx.room, ...) and
\* await it.
EntrypointCall(j) ==
  /\ Callable
  /\ jobs[j].pc = "idle"
  /\ \A i \in 1..(j - 1) : jobs[i].pc # "idle"
  /\ \E ok \in BOOLEAN :
       IF ok
         THEN LET s == AgentSession(nextId + 1, nextId)
                  a == Assistant(nextId + 2)
              IN /\ jobs' = [jobs EXCEPT ![j] =
                      [pc |-> "await_start", session |-> s, agent |-> a,
                       raisedAt |-> "",
                       calls |-> << Call("AgentSession", Endpoints(s)),
                                    Call("Assistant", a.instructions),
                                    Call("session.start", Ctx(j).room) >>]]
                 /\ nextId' = nextId + 3
         ELSE /\ jobs' = [jobs EXCEPT ![j] =
                   [pc |-> "raised", session |-> None, agent |-> None,
                    raisedAt |-> "construct",
                    calls |-> << Call("AgentSession", None) >>]]
              /\ UNCHANGED nextId
  /\ UNCHANGED << config, module, registered >>

\* await session.start(...) completes; the coroutine resumes, calls
\* session.generate_reply(instructions=GREETING) and awaits it.
StartCompletes(j) ==
  /\ jobs[j].pc = "await_start"
  /\ jobs' = [jobs EXCEPT ![j].pc = "await_reply",
                          ![j].calls = @ \o << Call("session.start.done", Ctx(j).room),
                                               Call("generate_reply", GREETING) >>]
  /\ UNCHANGED << config, module, registered, nextId >>

\* Variant of StartFails: the exception is swallowed and entrypoint goes on
StartFails_swallowed(j) ==
  /\ jobs[j].pc = "await_start"
  /\ jobs' = [jobs EXCEPT ![j].pc = "await_reply", ![j].raisedAt = "start",
                          ![j].calls = @ \o << Call("generate_reply", GREETING) >>]
  /\ UNCHANGED << config, module, registered, nextId >>

\* await session.start(...) raises: no handler, the exception leaves entrypoint
StartFails(j) ==
  /\ jobs[j].pc = "await_start"
  /\ jobs' = [jobs EXCEPT ![j].pc = "raised", ![j].raisedAt = "start"]
  /\ UNCHANGED << config, module, registered, nextId >>

\* await session.generate_reply(...) completes; entrypoint returns
ReplyCompletes(j) ==
  /\ jobs[j].pc = "await_reply"
  /\ jobs' = [jobs EXCEPT ![j].pc = "returned",
                          ![j].calls = @ \o << Call("generate_reply.done", GREETING) >>]
  /\ UNCHANGED << config, module, registered, nextId >>

\* await session.generate_reply(...) raises: no handler, the exception leaves entrypoint
ReplyFails(j) ==
  /\ jobs[j].pc = "await_reply"
  /\ jobs' = [jobs EXCEPT ![j].pc = "raised", ![j].raisedAt = "reply"]
  /\ UNCHANGED << config, module, registered, nextId >>

Next ==
  \/ LoadPrimary
  \/ LoadSecondary
  \/ Validate
  \/ RunApp
  \/ \E j \in 1..MaxJobs : EntrypointCall(j)
  \/ \E j \in 1..MaxJobs : StartCompletes(j)
  \/ \E j \in 1..MaxJobs : StartFails(j)
  \/ \E j \in 1..MaxJobs : ReplyCompletes(j)
  \/ \E j \in 1..MaxJobs : ReplyFails(j)

Spec == Init /\ [][Next]_vars

\* ================================================================== claims
PostValidate == pc \in {"exited", "defined", "worker"}
PassedGuard == pc \in {"defined", "worker"}
PostLoad == pc \notin {"load_primary", "load_secondary"}

Unset(k) == k \notin DOMAIN environ
Blank(k) == k \in DOMAIN environ /\ environ[k] = ""

\* The names listed by the diagnostic of a process that exited
Named ==
  IF pc = "exited" /\ Len(stdout) > 0
    THEN { stdout[1].names[i] : i \in 1..Len(stdout[1].names) }
    ELSE {}

\* Nothing of the session side has happened
NoSessionActivity ==
  /\ registered = None
  /\ nextId = 1
  /\ \A j \in 1..MaxJobs : jobs[j].pc = "idle"

\* Job j got past the construction of its pipeline and Assistant
Built(j) == jobs[j].pc # "idle" /\ jobs[j].raisedAt # "construct"

Instances(j) == { jobs[j].session.id, jobs[j].session.vad, jobs[j].agent.id }

CountOp(c, op) == Cardinality({ i \in DOMAIN c : c[i].op = op })

\* The diagnostic names exactly the set S, once each, and the exit is non-zero
ExitsNaming(S) ==
  /\ pc = "exited"
  /\ exitStatus # 0
  /\ Len(stdout) = 1
  /\ stdout[1].text = MISSING_PREFIX
  /\ Named = S
  /\ Len(stdout[1].names) = Cardinality(S)

\* C1 as stated: whenever the set S of required variables that are unset
\* after loading is non-empty, startup prints one diagnostic naming exactly S
\* and exits non-zero; and while a required variable is absent no session,
\* worker or connection exists.
C1_Original ==
  /\ (\E k \in Required : Unset(k)) => NoSessionActivity
  /\ PostValidate =>
       LET S == { k \in Required : Unset(k) } IN S # {} => ExitsNaming(S)

\* C1 (amended): the same with "absent" meaning unset or set to the empty
\* string: whenever the set S of required variables that are unset or empty
\* after loading is non-empty, startup prints one diagnostic naming exactly S
\* and exits with a non-zero status, and while some required variable is
\* unset or empty no session is constructed and no worker is registered.
C1_MissingExactlyNamed ==
  /\ (\E k \in Required : Unset(k) \/ Blank(k)) => NoSessionActivity
  /\ PostValidate =>
       LET S == { k \in Required : Unset(k) \/ Blank(k) } IN S # {} => ExitsNaming(S)

C1_Witness ==
  /\ pc = "exited"
  /\ Len(stdout) = 1
  /\ \E k \in Required : Unset(k) /\ k \in Named
  /\ \E k \in Required : ~Unset(k) /\ ~Blank(k) /\ k \notin Named

\* C2 as stated: when all six required variables are set after loading,
\* nothing is printed and the guard does not exit.
C2_Original ==
  (PostValidate /\ \A k \in Required : ~Unset(k)) =>
     (stdout = << >> /\ pc # "exited")

\* C2 (amended): when all six required variables are set to non-empty values
\* after loading, the guard prints nothing and does not exit, and a module
\* that is run directly goes on to register entrypoint as the worker's
\* per-job callback.
C2_AllSetProceeds ==
  [][ /\ (PostValidate' /\ \A k \in Required : k \in DOMAIN environ' /\ environ'[k] # "")
           => (stdout' = << >> /\ pc' # "exited" /\ missing' = << >>)
      /\ (pc = "validate" /\ \A k \in Required : k \in DOMAIN environ /\ environ[k] # "")
           => pc' = "defined"
      /\ (pc = "defined" /\ runDirect)
           => (pc' = "worker" /\ registered' = "entrypoint")
      /\ registered' \in {None, "entrypoint"} ]_vars

C2_Witness ==
  /\ pc = "worker"
  /\ registered = "entrypoint"
  /\ stdout = << >>

\* C3: in every invocation of entrypoint the pipeline is constructed at most
\* once, the session started at most once and the reply requested at most
\* once; the start follows the construction and is bound to the context's
\* room, the reply request carries the greeting and follows the completion of
\* the start; an invocation that returned did exactly: one construction with
\* the four endpoints, one start, one reply request, in that order.
C3_EntrypointOrder ==
  \A j \in 1..MaxJobs :
    LET c == jobs[j].calls IN
      /\ \A op \in {"AgentSession", "session.start", "session.start.done",
                    "generate_reply", "generate_reply.done"} : CountOp(c, op) <= 1
      /\ \A i \in DOMAIN c :
           c[i].op = "session.start" =>
             /\ c[i].arg = Ctx(j).room
             /\ \E h \in 1..(i - 1) : c[h].op = "AgentSession"
      /\ \A i \in DOMAIN c :
           c[i].op = "generate_reply" =>
             /\ c[i].arg = GREETING
             /\ \E h \in 1..(i - 1) : c[h].op = "session.start.done"
      /\ jobs[j].pc = "returned" =>
           /\ [i \in DOMAIN c |-> c[i].op] =
                << "AgentSession", "Assistant", "session.start",
                   "session.start.done", "generate_reply", "generate_reply.done" >>
           /\ c[1].arg = [stt |-> STT, llm |-> LLM, tts |-> TTS,
                          vad |-> jobs[j].session.vad]

C3_Witness == \E j \in 1..MaxJobs : jobs[j].pc = "returned"

\* C4 as stated: with .env.local absent and .env defining all six required
\* variables, .env is loaded, nothing is missing and startup does not exit.
C4_Original ==
  ( /\ PostValidate
    /\ ~primaryFile.exists
    /\ secondaryFile.exists
    /\ \A k \in Required : k \in DOMAIN secondaryFile.vars )
  => (secondaryRead /\ pc # "exited" /\ stdout = << >>)

\* C4 (amended): with .env.local absent and .env defining all six required
\* variables with non-empty values, and no required variable set to the
\* empty string in the inherited environment, .env is loaded, nothing is
\* missing and startup does not exit.
C4_SecondaryOnlySucceeds ==
  ( /\ PostValidate
    /\ ~primaryFile.exists
    /\ secondaryFile.exists
    /\ \A k \in Required : k \in DOMAIN secondaryFile.vars /\ secondaryFile.vars[k] # ""
    /\ \A k \in Required : ~(k \in DOMAIN ambient /\ ambient[k] = "") )
  => (secondaryRead /\ pc # "exited" /\ stdout = << >> /\ missing = << >>)

C4_Witness ==
  /\ pc = "defined"
  /\ ~primaryFile.exists
  /\ secondaryFile.exists
  /\ \A k \in Required : k \in DOMAIN secondaryFile.vars /\ secondaryFile.vars[k] # ""
  /\ \A k \in Required : k \notin DOMAIN ambient

\* C5: .env is read only after .env.local was tried and yielded nothing, and
\* it is read whenever .env.local is absent; when some required variable is
\* defined by neither file nor by the inherited environment, the process
\* exits with status 1 and its one message names every such variable.
C5_LayeredLoadFails ==
  /\ secondaryRead => (pc # "load_primary" /\ loaded = FALSE)
  /\ (PostLoad /\ ~primaryFile.exists) => secondaryRead
  /\ PostValidate =>
       LET U == { k \in Required : /\ k \notin DOMAIN primaryFile.vars
                                   /\ k \notin DOMAIN secondaryFile.vars
                                   /\ k \notin DOMAIN ambient }
       IN U # {} => /\ pc = "exited"
                    /\ exitStatus = 1
                    /\ Len(stdout) = 1
                    /\ U \subseteq Named

C5_Witness ==
  /\ pc = "exited"
  /\ ~primaryFile.exists
  /\ ~secondaryFile.exists
  /\ \A k \in Required : k \notin DOMAIN ambient

\* C6: under every interleaving, the objects an invocation constructs (its
\* pipeline, its voice-activity detector, its Assistant) are new when it
\* constructs them and are held by no other invocation, and a step of an
\* invocation leaves the module-level state unchanged.
C6_FreshInstances ==
  [][ /\ \A j \in 1..MaxJobs :
           (jobs[j].pc = "idle" /\ Built(j)') =>
              /\ Cardinality(Instances(j)') = 3
              /\ \A x \in Instances(j)' : x >= nextId /\ x < nextId'
      /\ \A i, j \in 1..MaxJobs :
           (i # j /\ Built(i)' /\ Built(j)') => Instances(i)' \cap Instances(j)' = {}
      /\ (\E j \in 1..MaxJobs : jobs'[j].pc # jobs[j].pc) =>
           UNCHANGED << environ, pc, loaded, missing, registered, stdout, exitStatus >>
    ]_vars

C6_Witness ==
  \E i, j \in 1..MaxJobs :
    /\ i # j
    /\ jobs[i].pc = "await_reply"
    /\ jobs[j].pc = "await_start"

\* C7: os.environ changes only while the module body is loading the files;
\* from the validation guard on no step changes it; every Assistant carries
\* the one instruction constant and keeps it.
C7_ConfigReadOnly ==
  [][ /\ PostLoad => environ' = environ
      /\ ambient' = ambient
      /\ \A j \in 1..MaxJobs :
           Built(j)' => jobs'[j].agent.instructions = INSTRUCTIONS
      /\ \A j \in 1..MaxJobs :
           Built(j) => jobs'[j].agent = jobs[j].agent
    ]_vars

C7_Witness ==
  /\ pc = "worker"
  /\ \E i, j \in 1..MaxJobs :
       i # j /\ jobs[i].pc = "returned" /\ Built(j)
  /\ environ # ambient

\* C8: an invocation in which a step failed has stopped there: it is never
\* resumed, a failure of the construction or of the start leaves no reply
\* request behind, a failure of the reply request leaves exactly one, and no
\* call is made a second time.
C8_FailurePropagates ==
  [][ \A j \in 1..MaxJobs :
        /\ jobs'[j].raisedAt # "" => jobs'[j].pc = "raised"
        /\ jobs[j].pc = "raised" => jobs'[j] = jobs[j]
        /\ jobs'[j].raisedAt \in {"construct", "start"} =>
             CountOp(jobs'[j].calls, "generate_reply") = 0
        /\ jobs'[j].raisedAt = "start" =>
             CountOp(jobs'[j].calls, "session.start.done") = 0
        /\ jobs'[j].raisedAt = "reply" =>
             /\ CountOp(jobs'[j].calls, "generate_reply") = 1
             /\ CountOp(jobs'[j].calls, "generate_reply.done") = 0
        /\ CountOp(jobs'[j].calls, "AgentSession") <= 1
        /\ CountOp(jobs'[j].calls, "session.start") <= 1
    ]_vars

C8_Witness ==
  \E i, j \in 1..MaxJobs :
    /\ jobs[i].pc = "raised" /\ jobs[i].raisedAt = "start"
    /\ jobs[j].pc = "raised" /\ jobs[j].raisedAt = "reply"

\* C9: a required variable set to the empty string is treated as missing:
\* it is named by the diagnostic and the process exits with status 1, so
\* past the guard every required variable has a non-empty value.
C9_EmptyIsMissing ==
  /\ PassedGuard => \A k \in Required : k \in DOMAIN environ /\ environ[k] # ""
  /\ (PostValidate /\ \E k \in Required : Blank(k)) =>
       /\ pc = "exited"
       /\ exitStatus = 1
       /\ { k \in Required : Blank(k) } \subseteq Named

C9_Witness ==
  /\ pc = "exited"
  /\ \A k \in Required : ~Unset(k)
  /\ \E k \in Required : Blank(k)

\* C10: .env is loaded exactly when loading .env.local reported no data,
\* which is exactly when .env.local is absent or defines nothing; so when
\* .env.local defines something but not a required variable that only .env
\* defines, .env is never read and startup exits with status 1 naming it.
C10_SecondaryIffPrimaryEmpty ==
  /\ PostLoad =>
       /\ secondaryRead <=> (loaded = FALSE)
       /\ (loaded = FALSE) <=> (~primaryFile.exists \/ DOMAIN primaryFile.vars = {})
  /\ PostValidate =>
       \A k \in Required :
         ( /\ primaryFile.exists
           /\ DOMAIN primaryFile.vars # {}
           /\ k \notin DOMAIN primaryFile.vars
           /\ secondaryFile.exists
           /\ k \in DOMAIN secondaryFile.vars
           /\ k \notin DOMAIN ambient )
         => (~secondaryRead /\ pc = "exited" /\ exitStatus = 1 /\ k \in Named)

C10_Witness ==
  /\ pc = "exited"
  /\ \E k \in Required :
       /\ primaryFile.exists
       /\ DOMAIN primaryFile.vars # {}
       /\ k \notin DOMAIN primaryFile.vars
       /\ k \in DOMAIN secondaryFile.vars
       /\ secondaryFile.vars[k] # ""
       /\ k \notin DOMAIN ambient

====
